---- MODULE Spec2Model ----
\* State machine of the SparkGrid VPP simulator (src/types.ts, component App).
\*
\* Quantities of power are integers in hundredths of a MW (35 MW = 3500), so
\* that the one-decimal rounding of the statistics is a real conversion.
\* Time is counted in units of 1000 ms from the moment the interval was armed:
\* the interval of 3000 ms is 3 units, and the setTimeout of 500 ms, which
\* runSimulation starts at the moment it causes the interval to be re-armed,
\* is due before the first unit after that has passed.
\* Not modelled: the log list (addLog), gridFrequency (a fresh random number
\* per recomputation of stats that no handler reads) and the markup.
EXTENDS Integers, Sequences, FiniteSets, Bags, TLC

\* ---------------------------------------------------------------- constants
HistoryLimit == 20
TickPeriod == 3
DeltaMin == -100
DeltaMax == 99
StorageLevel == 65

\* ------------------------------------------------------------------- bounds
\* Ticks a behaviour may take after its initial state.
MaxTicks == 2
\* Button clicks (scenario, reset, refresh) a behaviour may take.
MaxClicks == 2
\* Ticks already taken in the initial states of SpecHist.
HistWarm == 19
\* Button clicks a behaviour of SpecHist may take.
HistClicks == 1

VARIABLES
  assets,           \* useState<GridAsset[]>: the registry
  history,          \* useState<any[]>: the chart's points
  aiAdvice,         \* useState<string>
  isLoadingAdvice,  \* useState(false)
  timeouts,         \* pending setTimeout callbacks of runSimulation
  requests,         \* bag of the prompts whose generateContent is pending
  tickIn,           \* time until the armed setInterval fires
  ticks,            \* interval callbacks run so far (the points' timestamp)
  ticksLeft,        \* ticks the behaviour may still take (bound)
  clicksLeft,       \* clicks the behaviour may still take (bound)
  drawn,            \* the deltas Math.random gave the latest tick
  sinceTick         \* time passed since the latest tick (since mount before
                    \* it), counted up to TickPeriod + 1

vars == <<assets, history, aiAdvice, isLoadingAdvice, timeouts, requests,
          tickIn, ticks, ticksLeft, clicksLeft, drawn, sinceTick>>

\* -------------------------------------------------------------------- types
AssetType == {"SOLAR", "WIND", "BATTERY", "BUILDING", "FACTORY", "EV_STATION"}

INITIAL_ASSETS ==
  << [id |-> "1", name |-> "Sunny Meadows PV", type |-> "SOLAR",
      capacity |-> 5000, currentOutput |-> 3500, status |-> "active",
      x |-> 15, y |-> 20],
     [id |-> "2", name |-> "West Ridge Wind", type |-> "WIND",
      capacity |-> 8000, currentOutput |-> 4200, status |-> "active",
      x |-> 80, y |-> 15],
     [id |-> "3", name |-> "Central Battery B1", type |-> "BATTERY",
      capacity |-> 4000, currentOutput |-> -1000, status |-> "active",
      x |-> 50, y |-> 50],
     [id |-> "4", name |-> "Downtown Hub", type |-> "BUILDING",
      capacity |-> 3000, currentOutput |-> 2500, status |-> "active",
      x |-> 45, y |-> 75],
     [id |-> "5", name |-> "Tech Park A", type |-> "FACTORY",
      capacity |-> 10000, currentOutput |-> 8500, status |-> "active",
      x |-> 75, y |-> 80],
     [id |-> "6", name |-> "Supercharger Lot", type |-> "EV_STATION",
      capacity |-> 2000, currentOutput |-> 1200, status |-> "active",
      x |-> 20, y |-> 85] >>

\* The scenarios the three buttons pass to runSimulation.
ScenarioTypes == {"heatwave", "storm", "blackout"}

\* ---------------------------------------------------------------- statistics
Abs(n) == IF n < 0 THEN -n ELSE n

\* Math.round(v * 10) / 10 of a value held in hundredths: Math.round rounds
\* half up, also for negative values.
Round1(v) == ((v + 5) \div 10) * 10

\* What one asset adds to gen in the forEach of the stats memo.
GenPart(a) ==
  IF a.type \in {"SOLAR", "WIND"} THEN a.currentOutput
  ELSE IF a.type \in {"BUILDING", "FACTORY", "EV_STATION"} THEN 0
  ELSE IF a.type = "BATTERY" /\ a.currentOutput > 0 THEN a.currentOutput
  ELSE 0

\* What one asset adds to cons in the forEach of the stats memo.
ConsPart(a) ==
  IF a.type \in {"SOLAR", "WIND"} THEN 0
  ELSE IF a.type \in {"BUILDING", "FACTORY", "EV_STATION"} THEN a.currentOutput
  ELSE IF a.type = "BATTERY" /\ ~(a.currentOutput > 0) THEN Abs(a.currentOutput)
  ELSE 0

RECURSIVE SumGen(_, _)
SumGen(as, n) == IF n = 0 THEN 0 ELSE SumGen(as, n - 1) + GenPart(as[n])

RECURSIVE SumCons(_, _)
SumCons(as, n) == IF n = 0 THEN 0 ELSE SumCons(as, n - 1) + ConsPart(as[n])

Stats(as) ==
  LET gen == SumGen(as, Len(as))
      cons == SumCons(as, Len(as))
  IN [totalGeneration |-> Round1(gen),
      totalConsumption |-> Round1(cons),
      netLoad |-> Round1(cons - gen),
      storageLevel |-> StorageLevel]

\* The memoised stats of the current render: recomputed whenever assets is
\* replaced, so every handler of the current render reads Stats(assets).
stats == Stats(assets)

\* ------------------------------------------------------------------ the tick
Max(a, b) == IF a > b THEN a ELSE b
Min(a, b) == IF a < b THEN a ELSE b

\* The vectors of (Math.random() - 0.5) * 2, one delta per asset, that a tick
\* may draw: every asset at the lowest value, and one mixed draw.
MixedDraw == <<DeltaMax, -37, 64, DeltaMin, 0, 5>>

DeltaVectors == { [i \in 1..Len(INITIAL_ASSETS) |-> DeltaMin], MixedDraw }

\* Mutant: the lower clamp Math.max(0, ...) is missing.
FluctuateNoFloor(a, d) ==
  [a EXCEPT !.currentOutput = Min(a.capacity, a.currentOutput + d)]

\* Mutant: no clamp at all.
FluctuateNoClamp(a, d) == [a EXCEPT !.currentOutput = a.currentOutput + d]

\* Mutant: an offline asset is left out of the fluctuation.
FluctuateUnlessOffline(a, d) ==
  IF a.status = "offline" THEN a
  ELSE [a EXCEPT !.currentOutput = Max(0, Min(a.capacity, a.currentOutput + d))]

\* The object the tick's map returns for asset a and delta d.
Fluctuate(a, d) ==
  [a EXCEPT !.currentOutput = Max(0, Min(a.capacity, a.currentOutput + d))]

\* prev.map(a => ...) of the tick.
FluctuateAll(as, dv) == [i \in 1..Len(as) |-> Fluctuate(as[i], dv[i])]

\* newPoint of the interval callback, from the stats st it reads; the time of
\* day is held as the number t of the tick.
HistoryPoint(st, t) ==
  [time |-> t,
   generation |-> st.totalGeneration,
   consumption |-> st.totalConsumption,
   net |-> st.netLoad]

\* Mutant: the point is computed from the registry the tick produces.
IntervalStatsAfter == Stats(assets')

\* The stats the interval callback closes over: those of the render that armed
\* the interval, which is the current one, as every change of assets re-arms.
IntervalStats == stats

\* Mutant: the oldest points are kept, slice(0, 20).
KeepFirst(s) == IF Len(s) > HistoryLimit THEN SubSeq(s, 1, HistoryLimit) ELSE s

\* next.slice(-20)
KeepLast(s) ==
  IF Len(s) > HistoryLimit
  THEN SubSeq(s, Len(s) - HistoryLimit + 1, Len(s))
  ELSE s

\* ------------------------------------------------------------ the scenarios
\* Mutant: the targets are taken from the current output, not the capacity.
ScenarioAssetCumulative(type, a) ==
  IF type = "heatwave" /\ a.type = "SOLAR"
    THEN [a EXCEPT !.currentOutput = (a.currentOutput * 95) \div 100]
  ELSE IF type = "heatwave" /\ a.type = "BUILDING"
    THEN [a EXCEPT !.currentOutput = (a.currentOutput * 9) \div 10]
  ELSE IF type = "storm" /\ a.type = "WIND"
    THEN [a EXCEPT !.currentOutput = (a.currentOutput * 8) \div 10,
                   !.status = "warning"]
  ELSE IF type = "storm" /\ a.type = "SOLAR"
    THEN [a EXCEPT !.currentOutput = (a.currentOutput * 1) \div 10]
  ELSE IF type = "blackout" /\ a.type # "BATTERY"
    THEN [a EXCEPT !.currentOutput = 0, !.status = "offline"]
  ELSE IF type = "blackout"
    THEN [a EXCEPT !.currentOutput = (a.currentOutput * 5) \div 10]
  ELSE a

\* Mutant: the blackout branch takes the battery offline like the others.
ScenarioAssetBatteryOffline(type, a) ==
  IF type = "heatwave" /\ a.type = "SOLAR"
    THEN [a EXCEPT !.currentOutput = (a.capacity * 95) \div 100]
  ELSE IF type = "heatwave" /\ a.type = "BUILDING"
    THEN [a EXCEPT !.currentOutput = (a.capacity * 9) \div 10]
  ELSE IF type = "storm" /\ a.type = "WIND"
    THEN [a EXCEPT !.currentOutput = (a.capacity * 8) \div 10,
                   !.status = "warning"]
  ELSE IF type = "storm" /\ a.type = "SOLAR"
    THEN [a EXCEPT !.currentOutput = (a.capacity * 1) \div 10]
  ELSE IF type = "blackout" /\ a.type # "BATTERY"
    THEN [a EXCEPT !.currentOutput = 0, !.status = "offline"]
  ELSE IF type = "blackout"
    THEN [a EXCEPT !.currentOutput = (a.capacity * 5) \div 10,
                   !.status = "offline"]
  ELSE a

\* The function runSimulation maps over the registry.
ScenarioAsset(type, a) ==
  IF type = "heatwave" /\ a.type = "SOLAR"
    THEN [a EXCEPT !.currentOutput = (a.capacity * 95) \div 100]
  ELSE IF type = "heatwave" /\ a.type = "BUILDING"
    THEN [a EXCEPT !.currentOutput = (a.capacity * 9) \div 10]
  ELSE IF type = "storm" /\ a.type = "WIND"
    THEN [a EXCEPT !.currentOutput = (a.capacity * 8) \div 10,
                   !.status = "warning"]
  ELSE IF type = "storm" /\ a.type = "SOLAR"
    THEN [a EXCEPT !.currentOutput = (a.capacity * 1) \div 10]
  ELSE IF type = "blackout" /\ a.type # "BATTERY"
    THEN [a EXCEPT !.currentOutput = 0, !.status = "offline"]
  ELSE IF type = "blackout"
    THEN [a EXCEPT !.currentOutput = (a.capacity * 5) \div 10]
  ELSE a

Scenario(type, as) == [i \in 1..Len(as) |-> ScenarioAsset(type, as[i])]

\* ------------------------------------------------------------- the advisory
InitialAdvice == "Waiting for system telemetry..."
DefaultAdvice == "Optimize storage to balance peaks."
\* Mutant: the catch block leaves the text of the unavailable service out.
AdviceOnFailureShort == "Manual override suggested."

AdviceOnFailure == "AI Advice unavailable. Manual override suggested."

\* response.text of a fulfilled generateContent: some text, or empty.
Responses == {"advice", ""}

\* The figures and the scenario the prompt template interpolates.
Prompt(context, st) ==
  [generation |-> st.totalGeneration,
   consumption |-> st.totalConsumption,
   net |-> st.netLoad,
   context |-> context]

\* The try block throws before the await: catch, then finally.
ThrowBeforeAwait ==
  /\ aiAdvice' = AdviceOnFailure
  /\ isLoadingAdvice' = FALSE
  /\ UNCHANGED requests

\* getAiStrategy up to its await, called by a closure whose stats is st:
\* either the request is sent and its promise is pending, or the code of the
\* try block throws before the await and catch and finally run at once.
GetAiStrategy(context, st) ==
  \/ /\ isLoadingAdvice' = TRUE
     /\ requests' = requests (+) SetToBag({Prompt(context, st)})
     /\ UNCHANGED aiAdvice
  \/ ThrowBeforeAwait

\* ------------------------------------------------------------------ actions
Init ==
  /\ assets = INITIAL_ASSETS
  /\ history = << >>
  /\ aiAdvice = InitialAdvice
  /\ isLoadingAdvice = FALSE
  /\ timeouts = << >>
  /\ requests = EmptyBag
  /\ tickIn = TickPeriod
  /\ ticks = 0
  /\ ticksLeft = MaxTicks
  /\ clicksLeft = MaxClicks
  /\ drawn = [i \in 1..Len(INITIAL_ASSETS) |-> 0]
  /\ sinceTick = 0

\* The setInterval callback: setHistory, then setAssets; the new assets give
\* new stats, so the effect clears the interval and arms a new one.
Tick ==
  /\ tickIn = 0
  /\ ticksLeft > 0
  /\ \E dv \in DeltaVectors :
       /\ assets' = FluctuateAll(assets, dv)
       /\ drawn' = dv
  /\ history' = KeepLast(Append(history, HistoryPoint(IntervalStats, ticks + 1)))
  /\ ticks' = ticks + 1
  /\ ticksLeft' = ticksLeft - 1
  /\ tickIn' = TickPeriod
  /\ sinceTick' = 0
  /\ UNCHANGED <<aiAdvice, isLoadingAdvice, timeouts, requests, clicksLeft>>

\* A scenario button: runSimulation(type). The timeout's callback calls the
\* getAiStrategy of the render the click happened in, whose stats it keeps.
RunSimulation(type) ==
  /\ clicksLeft > 0
  /\ clicksLeft' = clicksLeft - 1
  /\ assets' = Scenario(type, assets)
  /\ timeouts' = Append(timeouts, [context |-> type, stats |-> stats])
  /\ tickIn' = TickPeriod
  /\ UNCHANGED <<history, aiAdvice, isLoadingAdvice, requests, ticks,
                 ticksLeft, drawn, sinceTick>>

\* The Reset Grid button: setAssets(INITIAL_ASSETS). React keeps the render
\* (and the armed interval) when the state already is that array.
\* Mutant: only the outputs are put back, the statuses stay.
ResetOutputsOnly ==
  [i \in 1..Len(assets) |->
     [assets[i] EXCEPT !.currentOutput = INITIAL_ASSETS[i].currentOutput]]

ResetAssets == INITIAL_ASSETS

Reset ==
  /\ clicksLeft > 0
  /\ clicksLeft' = clicksLeft - 1
  /\ assets' = ResetAssets
  /\ tickIn' = IF assets = INITIAL_ASSETS THEN tickIn ELSE TickPeriod
  /\ UNCHANGED <<history, aiAdvice, isLoadingAdvice, timeouts, requests,
                 ticks, ticksLeft, drawn, sinceTick>>

\* The callback of the oldest pending setTimeout: getAiStrategy(type).
Timeout ==
  /\ timeouts # << >>
  /\ timeouts' = Tail(timeouts)
  /\ GetAiStrategy(Head(timeouts).context, Head(timeouts).stats)
  /\ UNCHANGED <<assets, history, tickIn, ticks, ticksLeft, clicksLeft, drawn, sinceTick>>

\* The Refresh AI Advice button: getAiStrategy() of the current render.
Refresh ==
  /\ clicksLeft > 0
  /\ clicksLeft' = clicksLeft - 1
  /\ UNCHANGED <<assets, history, timeouts, tickIn, ticks, ticksLeft, drawn, sinceTick>>
  /\ GetAiStrategy("general", stats)

\* generateContent fulfils the request of prompt p with text.
Respond(p, text) ==
  /\ aiAdvice' = IF text = "" THEN DefaultAdvice ELSE text
  /\ isLoadingAdvice' = FALSE
  /\ requests' = requests (-) SetToBag({p})
  /\ UNCHANGED <<assets, history, timeouts, tickIn, ticks, ticksLeft,
                 clicksLeft, drawn, sinceTick>>

\* generateContent rejects the request of prompt p.
Fail(p) ==
  /\ aiAdvice' = AdviceOnFailure
  /\ isLoadingAdvice' = FALSE
  /\ requests' = requests (-) SetToBag({p})
  /\ UNCHANGED <<assets, history, timeouts, tickIn, ticks, ticksLeft,
                 clicksLeft, drawn, sinceTick>>

\* One unit of time passes; a due interval runs before more time passes, and
\* so does a pending timeout.
Advance ==
  /\ tickIn > 0
  /\ timeouts = << >>
  /\ tickIn' = tickIn - 1
  /\ sinceTick' = Min(sinceTick + 1, TickPeriod + 1)
  /\ UNCHANGED <<assets, history, aiAdvice, isLoadingAdvice, timeouts,
                 requests, ticks, ticksLeft, clicksLeft, drawn>>

Next ==
  \/ Tick
  \/ \E type \in ScenarioTypes : RunSimulation(type)
  \/ Reset
  \/ Timeout
  \/ Refresh
  \/ \E p \in BagToSet(requests), text \in Responses : Respond(p, text)
  \/ \E p \in BagToSet(requests) : Fail(p)
  \/ Advance

Spec == Init /\ [][Next]_vars

\* ------------------------------------------------- a long-running dashboard
\* The registry after n ticks that all drew MixedDraw, with no click.
RECURSIVE WarmAssets(_)
WarmAssets(n) ==
  IF n = 0 THEN INITIAL_ASSETS ELSE FluctuateAll(WarmAssets(n - 1), MixedDraw)

\* The history those n ticks leave.
RECURSIVE WarmHistory(_)
WarmHistory(n) ==
  IF n = 0 THEN << >>
  ELSE KeepLast(Append(WarmHistory(n - 1),
                       HistoryPoint(Stats(WarmAssets(n - 1)), n)))

\* The dashboard after HistWarm such ticks, the interval just re-armed.
InitHist ==
  /\ assets = WarmAssets(HistWarm)
  /\ history = WarmHistory(HistWarm)
  /\ aiAdvice = InitialAdvice
  /\ isLoadingAdvice = FALSE
  /\ timeouts = << >>
  /\ requests = EmptyBag
  /\ tickIn = TickPeriod
  /\ ticks = HistWarm
  /\ ticksLeft = MaxTicks
  /\ clicksLeft = HistClicks
  /\ drawn = IF HistWarm = 0 THEN [i \in 1..Len(INITIAL_ASSETS) |-> 0]
             ELSE MixedDraw
  /\ sinceTick = 0

SpecHist == InitHist /\ [][Next]_vars

\* ------------------------------------------------------------------- claims

C2_ResetRestoresSeed ==
  [][Reset =>
       /\ assets' = INITIAL_ASSETS
       /\ [i \in 1..Len(assets') |-> assets'[i].currentOutput]
            = <<3500, 4200, -1000, 2500, 8500, 1200>>
       /\ [i \in 1..Len(assets') |-> assets'[i].id]
            = <<"1", "2", "3", "4", "5", "6">>
       /\ \A i \in 1..Len(assets') : assets'[i].status = "active"]_vars

\* C2 witness: the registry is the seed again although a tick has run and the
\* history holds a point taken during a blackout (no consumption).
C2_Witness ==
  /\ assets = INITIAL_ASSETS
  /\ ticks > 0
  /\ \E k \in 1..Len(history) : history[k].consumption = 0

\* C3: for every scenario s and every reachable registry R, applying s to
\* Scenario(s, R) gives Scenario(s, R) again.
C3_ScenarioIdempotent ==
  \A s \in ScenarioTypes :
    Scenario(s, Scenario(s, assets)) = Scenario(s, assets)

\* C3 witness: storm was clicked twice in a row after a tick (both timeouts
\* are still pending, so no tick came in between), and the registry is the
\* one a single storm gives.
C3_Witness ==
  /\ ticks > 0
  /\ Len(timeouts) = 2
  /\ timeouts[1].context = "storm"
  /\ timeouts[2].context = "storm"
  /\ assets[2].status = "warning"
  /\ assets[2].currentOutput = 6400
  /\ assets[1].currentOutput = 500

\* C4: the history never holds more than 20 points; its points are those of
\* the latest ticks, oldest first (after more than 20 ticks, exactly the
\* latest 20); a tick appends one point at the end and keeps the others in
\* their order.
C4_HistoryLast20 ==
  /\ [](/\ Len(history) <= 20
        /\ Len(history) = Min(ticks, 20)
        /\ \A k \in 1..Len(history) :
             history[k].time = ticks - Len(history) + k)
  /\ [][ticks' = ticks + 1 =>
          LET n == Len(history)
              m == Len(history')
          IN /\ m = Min(n + 1, 20)
             /\ history'[m].time = ticks'
             /\ \A k \in 1..(m - 1) : history'[k] = history[k + (n + 1 - m)]]_vars

\* C4 witness: more than 20 ticks have run; the history holds 20 points, the
\* oldest of them that of tick number ticks - 19.
C4_Witness ==
  /\ ticks > 20
  /\ Len(history) = 20
  /\ history[1].time = ticks - 19
  /\ history[20].time = ticks

\* C5: a scenario maps every asset by its type as the table says, returns
\* every asset the table does not list unchanged, and changes no field other
\* than currentOutput and status.
C5_ScenarioTable ==
  [][\A s \in ScenarioTypes :
       RunSimulation(s) =>
         /\ Len(assets') = Len(assets)
         /\ \A i \in 1..Len(assets) :
              LET a == assets[i]
                  b == assets'[i]
              IN /\ [b EXCEPT !.currentOutput = a.currentOutput,
                              !.status = a.status] = a
                 /\ (s = "heatwave" /\ a.type = "SOLAR") =>
                      (b.currentOutput * 100 = 95 * a.capacity
                         /\ b.status = a.status)
                 /\ (s = "heatwave" /\ a.type = "BUILDING") =>
                      (b.currentOutput * 100 = 90 * a.capacity
                         /\ b.status = a.status)
                 /\ (s = "heatwave" /\ a.type \notin {"SOLAR", "BUILDING"}) =>
                      b = a
                 /\ (s = "storm" /\ a.type = "WIND") =>
                      (b.currentOutput * 100 = 80 * a.capacity
                         /\ b.status = "warning")
                 /\ (s = "storm" /\ a.type = "SOLAR") =>
                      (b.currentOutput * 100 = 10 * a.capacity
                         /\ b.status = a.status)
                 /\ (s = "storm" /\ a.type \notin {"WIND", "SOLAR"}) => b = a
                 /\ (s = "blackout" /\ a.type # "BATTERY") =>
                      (b.currentOutput = 0 /\ b.status = "offline")
                 /\ (s = "blackout" /\ a.type = "BATTERY") =>
                      (b.currentOutput * 100 = 50 * a.capacity
                         /\ b.status = a.status)]_vars

\* C5 witness: right after a blackout on a registry a storm and a tick had
\* changed: the battery at half its capacity, its status untouched, and the
\* wind farm offline at 0.
C5_Witness ==
  /\ ticks > 0
  /\ timeouts # << >>
  /\ timeouts[Len(timeouts)].context = "blackout"
  /\ timeouts[Len(timeouts)].stats.totalGeneration > 6400
  /\ assets[3].currentOutput = 2000
  /\ assets[3].status = "active"
  /\ assets[2].currentOutput = 0
  /\ assets[2].status = "offline"

\* C6 (as stated): when an advisory request fails, the advice text becomes
\* exactly "Manual override suggested.".
C6_Original ==
  [][(\/ \E p \in BagToSet(requests) : Fail(p)
      \/ (ThrowBeforeAwait /\ (Refresh \/ Timeout))) =>
       aiAdvice' = "Manual override suggested."]_vars

\* C6 (amended): when an advisory request fails, by a rejection or by a throw
\* before the await, the advice text becomes exactly "AI Advice unavailable.
\* Manual override suggested.", the loading flag is cleared, and registry,
\* history and the armed interval are as they were, so that the simulation
\* goes on.
C6_FallbackOnFailure ==
  [][(\/ \E p \in BagToSet(requests) : Fail(p)
      \/ (ThrowBeforeAwait /\ (Refresh \/ Timeout))) =>
       /\ aiAdvice' = "AI Advice unavailable. Manual override suggested."
       /\ isLoadingAdvice' = FALSE
       /\ assets' = assets
       /\ history' = history
       /\ tickIn' = tickIn
       /\ ticksLeft' = ticksLeft]_vars

\* C6 witness: the fallback text is shown and the flag is cleared, in a
\* behaviour in which a button was clicked and a tick has run.
C6_Witness ==
  /\ aiAdvice = "AI Advice unavailable. Manual override suggested."
  /\ isLoadingAdvice = FALSE
  /\ clicksLeft < MaxClicks
  /\ ticksLeft < MaxTicks

\* C7: in every reachable registry the derived totalGeneration and
\* totalConsumption are >= 0, and so is every asset's share of either.
C7_TotalsNonNegative ==
  /\ Stats(assets).totalGeneration >= 0
  /\ Stats(assets).totalConsumption >= 0
  /\ \A i \in 1..Len(assets) :
       GenPart(assets[i]) >= 0 /\ ConsPart(assets[i]) >= 0

\* C7 witness: after a blackout and a tick the generators stand at 0 and the
\* discharging battery is all of the generation.
C7_Witness ==
  /\ ticks > 0
  /\ assets[1].currentOutput = 0
  /\ assets[2].currentOutput = 0
  /\ assets[3].currentOutput > 0
  /\ Stats(assets).totalGeneration = Round1(assets[3].currentOutput)
  /\ Stats(assets).totalConsumption = 0

\* C8 (as stated): the point a tick appends carries the generation,
\* consumption and net load of the registry the tick produces.
C8_Original ==
  [][ticks' = ticks + 1 =>
       history'[Len(history')] = HistoryPoint(Stats(assets'), ticks')]_vars

\* C8 (amended): the point a tick appends carries the generation, consumption
\* and net load of the registry as it was before that tick changed the assets.
C8_PointFromOldRegistry ==
  [][ticks' = ticks + 1 =>
       /\ history'[Len(history')].generation = Stats(assets).totalGeneration
       /\ history'[Len(history')].consumption = Stats(assets).totalConsumption
       /\ history'[Len(history')].net = Stats(assets).netLoad]_vars

\* C8 witness: right after a tick that followed a blackout: the latest point
\* shows the blackout's figures (20 MW from the battery, no consumption),
\* which are not those of the registry the tick produced.
C8_Witness ==
  /\ ticks > 0
  /\ tickIn = TickPeriod
  /\ timeouts = << >>
  /\ history[Len(history)].time = ticks
  /\ history[Len(history)].generation = 2000
  /\ history[Len(history)].consumption = 0
  /\ Stats(assets).totalGeneration # 2000

\* C9: the figures of an advisory request are those of the registry at the
\* moment the request is issued.
C9_RequestOfCurrentRegistry ==
  [][BagCardinality(requests') = BagCardinality(requests) + 1 =>
       \E p \in BagToSet(requests') :
         /\ requests' = requests (+) SetToBag({p})
         /\ p.generation = Stats(assets).totalGeneration
         /\ p.consumption = Stats(assets).totalConsumption
         /\ p.net = Stats(assets).netLoad]_vars

\* C10 (as stated): a tick leaves the currentOutput of every offline asset
\* unchanged.
C10_Original ==
  [][ticks' = ticks + 1 =>
       \A i \in 1..Len(assets) :
         assets[i].status = "offline" =>
           assets'[i].currentOutput = assets[i].currentOutput]_vars

\* C10 (amended): the status does not decide it: a tick adds the drawn delta
\* to the currentOutput of an offline asset and clamps the sum to
\* [0, capacity] as for any other asset, and leaves its status offline.
C10_OfflineFluctuates ==
  [][ticks' = ticks + 1 =>
       \A i \in 1..Len(assets) :
         assets[i].status = "offline" =>
           /\ assets'[i].status = "offline"
           /\ assets'[i].currentOutput =
                Max(0, Min(assets[i].capacity,
                           assets[i].currentOutput + drawn'[i]))]_vars

\* C10 witness: after a blackout and a tick, an offline asset feeds in again.
C10_Witness ==
  /\ ticks > 0
  /\ \E i \in 1..Len(assets) :
       /\ assets[i].status = "offline"
       /\ assets[i].type # "BATTERY"
       /\ assets[i].currentOutput > 0

\* C11: the time between two consecutive ticks is always 3 units, whether or
\* not scenario triggers or resets happen in between.
C11_FixedPeriod ==
  [][(ticks' = ticks + 1 /\ ticks > 0) => sinceTick = 3]_vars

\* C12: the loading flag is true exactly when at least one advisory request
\* is in flight, also when requests overlap.
C12_LoadingIffPending ==
  isLoadingAdvice <=> (BagCardinality(requests) > 0)

====
